---- MODULE Spec2Model ----
(***************************************************************************)
(* A model of lib/myFTClient.js: the batch mutation engine                 *)
(* (_multiAddRemoveRelationships), the pagination aggregator               *)
(* (_getAllNodeItems) and the follower synchronisation workflow            *)
(* (syncUserFollowers).                                                    *)
(***************************************************************************)
EXTENDS Integers, Sequences, FiniteSets, TLC

\* ------------------------------------------------------------------ bounds

\* Longest identifier list handed to the batch engine.
MaxIds == 5

\* config.BATCH_USER_COUNT: the chunk size (a configuration value).
BATCH_USER_COUNT == 2

\* config.BATCH_USER_CONCURRENCY: the limit handed to Promise.map.
BATCH_USER_CONCURRENCY == 2

\* The page counter is a double: params.page++ leaves it unchanged once it
\* has reached 2^53.  PageCeiling stands for that value.
PageCeiling == 3

\* The most items the remote serves to one paged fetch.
MaxItems == 4

\* const params = { page: 1, limit: 500 }
PageLimit == 500

\* ------------------------------------------------------------- vocabulary

\* The uuids of the concepts (the items of a page).
Concepts == {"A", "B"}

UserIds == {"u1", "u2"}

\* Error classes a request can end in: clientErrors.NotFoundError, and any
\* other failure of the transport or of the status check.
RequestErrorKinds == {"NotFoundError", "TransportError"}

\* Every kind for which `x instanceof Error` is true.
ErrorKinds == RequestErrorKinds \cup {"ClientError", "Error"}

Min(a, b) == IF a < b THEN a ELSE b

Range(s) == {s[i] : i \in DOMAIN s}

\* The sequences of `len` distinct elements of S: the orders in which `len`
\* members of S can be taken.
Orders(S, len) ==
  {o \in [1..len -> S] : \A i, j \in 1..len : i # j => o[i] # o[j]}

\* ------------------------------------------------------------------ state

VARIABLES
  bpc,         \* batch engine: "idle", "mapping", "returned", "raised"
  nodeId,      \* the nodeId argument: [list |-> TRUE, ids |-> <<..>>] or
               \* [list |-> FALSE, id |-> u]
  idChunks,    \* the chunks built from nodeId: each a list of ids, or the
               \* single id itself, in the shape of nodeId
  chunkSt,     \* per chunk index: "queued", "inflight", "settled"
  values,      \* Promise.map's result array, one slot per chunk index
  bOut,        \* what the engine returned or raised: NoOut, Returned(list)
               \* or Raised(error)
  dispatched,  \* history: chunk indices in the order their request was sent
  completed    \* history: the outcomes of the requests, in the order they
               \* settled

batchVars ==
  <<bpc, nodeId, idChunks, chunkSt, values, bOut, dispatched, completed>>

VARIABLES
  fpc,         \* paged fetch: "idle", "waiting", "done", "failed"
  page,        \* params.page
  allItems,    \* the accumulator
  fwire,       \* the reply to the request in flight, NoReply until it is there
  fOut,        \* what the fetch returned or raised
  asked,       \* history: the number of requests sent
  served,      \* history: the page replies received, in order
  exact        \* history: params.page has not yet stuck at its ceiling; the
               \* histories are kept while it is TRUE

fetchVars == <<fpc, page, allItems, fwire, fOut, asked, served, exact>>

VARIABLES
  spc,           \* syncUserFollowers: "idle", "groupConcepts", "userConcepts",
                 \* "addFollows", "getPref", "setPref", "emit", "done", "failed"
  groupId,       \* its arguments
  userId,
  groupConcepts, \* the concepts followed by the group, once fetched
  newConceptsToFollow,
  sOut,          \* what the workflow returned or raised
  calls          \* history: the calls the workflow made, in order

syncVars ==
  <<spc, groupId, userId, groupConcepts, newConceptsToFollow, sOut, calls>>

VARIABLES
  config,      \* helpers/config, read once when the process starts
  headers,     \* fetchOptions.headers, the one object the options.headers of
               \* every request refers to: its Content-Length
  opCall,      \* the mutation operation a caller last called: its name, the
               \* options it was given and the params its request carries
  request      \* the request a caller last had built by a call of
               \* _createAndTriggerRelationshipRequest itself: its method,
               \* the five path components it was given, and its URL

moduleVars == <<config, headers, opCall, request>>

VARIABLES
  remote,      \* what the remote has on record for the group and the user
               \* of the workflow: the concepts the group follows and the
               \* uuids of the concepts the user follows
  previous     \* history: how the run of the workflow before this one ended,
               \* NoOut when this is the first

worldVars == <<remote, previous>>

vars == <<batchVars, fetchVars, syncVars, moduleVars, worldVars>>

\* ------------------------------------------------------- requests: data

\* The values of a flag.
FlagValues == {"true", "false"}

Configs ==
  [NODE_ENV : {"production", "development"},
   MYFT_NO_EVENT : FlagValues,
   MYFT_WAIT_FOR_PURGE_ADD : FlagValues]

\* The header as the module leaves it: no Content-Length among the headers.
NoContentLength == [set |-> FALSE, length |-> 0]

ContentLength(n) == [set |-> TRUE, length |-> n]

\* What _doRelationshipRequest leaves in the shared headers when it builds
\* a request of `bytes` bytes of body: in production it writes the length
\* (0 for a GET) into options.headers, which is fetchOptions.headers itself,
\* Object.assign having copied the reference.
HeadersAfter(h, cfg, method, bytes) ==
  IF cfg.NODE_ENV = "production"
    THEN ContentLength(IF method = "GET" THEN 0 ELSE bytes)
    ELSE h

\* The remote with nothing on record.
NoRemote == [group |-> <<>>, user |-> {}]

\* The record of the remote once the POST of the workflow's add-follow
\* call, with `subjects` as its body's subjects, has succeeded.
Records(rem, subjects) ==
  [rem EXCEPT !.user = @ \cup {subjects[i].uuid : i \in DOMAIN subjects}]

\* ----------------------------------------------------- batch engine: data

Pending == [kind |-> "pending"]

\* How a call ended: the value its promise was fulfilled with, or the error
\* it was rejected with.
NoOut == [status |-> "none"]
Returned(v) == [status |-> "returned", value |-> v]
Raised(e) == [status |-> "raised", error |-> e]

\* The parsed response of the request sent for chunk i.
OkOutcome(i) == [kind |-> "ok", req |-> i]

\* The error the request sent for chunk i ended in.
ErrOutcome(k, i) == [kind |-> k, req |-> i]

ChunkOutcomes(i) == {OkOutcome(i)} \cup {ErrOutcome(k, i) : k \in RequestErrorKinds}

\* res instanceof Error
IsError(o) == o.kind \in ErrorKinds

\* new clientErrors.ClientError("An error has occurred ...")
GenericClientError == [kind |-> "ClientError"]

NodeIdInputs ==
  {[list |-> TRUE, ids |-> s] :
     s \in UNION {[1..n -> UserIds] : n \in 0..MaxIds}}
  \cup {[list |-> FALSE, id |-> u] : u \in UserIds}

\* idsClone.splice(0, size) repeated while idsClone.length
RECURSIVE SpliceAll(_, _)
SpliceAll(ids, size) ==
  IF Len(ids) = 0 THEN <<>>
  ELSE LET n == Min(size, Len(ids))
       IN  <<[list |-> TRUE, ids |-> SubSeq(ids, 1, n)]>>
             \o SpliceAll(SubSeq(ids, n + 1, Len(ids)), size)

\* A list sent whole, as one chunk.
BuildChunksWhole(nid) == <<nid>>

\* const idChunks = []; ... (a non-array nodeId is pushed as it is, and is
\* then the `ids` of the one request)
BuildChunks(nid) ==
  IF nid.list THEN SpliceAll(nid.ids, BATCH_USER_COUNT) ELSE <<nid>>

ChunksIn(st, s) == {i \in DOMAIN st : st[i] = s}

\* Buffer.byteLength(JSON.stringify(chunkData)), counted in ids: the part of
\* the body that is the same for every chunk of a batch counts for one.
BodyBytes(chunk) == 1 + (IF chunk.list THEN Len(chunk.ids) ELSE 1)

\* The shared headers after the requests of the chunks at `order` were
\* built, one after the other.
RECURSIVE HeadersAfterAll(_, _, _, _)
HeadersAfterAll(h, cfg, chunks, order) ==
  IF order = <<>> THEN h
  ELSE HeadersAfterAll(
         HeadersAfter(h, cfg, "POST", BodyBytes(chunks[Head(order)])),
         cfg, chunks, Tail(order))

\* A map that ignores its concurrency option.
FreeSlotsUnlimited(inflight) == MaxIds

\* How many queued chunks Promise.map may start when `inflight` are running.
FreeSlots(inflight) == BATCH_USER_CONCURRENCY - inflight

\* A mapper without the .catch: a failed request rejects the mapper's promise.
MapperSettlesNoCatch(o) == [fulfilled |-> o.kind = "ok", value |-> o]

\* The mapper's chain ends in .catch(err => { log.error(..); return err; }):
\* the mapper's promise is fulfilled whatever the request ended in, with the
\* parsed response or with the error as its value.
MapperSettles(o) == [fulfilled |-> TRUE, value |-> o]

\* Results collected in the order the requests finish.
PlaceOutcomeByCompletion(vals, i, o, done) == [vals EXCEPT ![done + 1] = o]

\* Promise.map stores a mapper result by the index of its element.
PlaceOutcome(vals, i, o, done) == [vals EXCEPT ![i] = o]

\* results.every in the place of results.some.
NoErrors(results) == \A i \in DOMAIN results : ~IsError(results[i])

\* results.some(res => (res instanceof Error) === false)
NotAllErrors(results) == \E i \in DOMAIN results : ~IsError(results[i])

\* An aggregation step that always throws the general error.
ThrownGeneric(results) == GenericClientError

\* What the aggregation step throws when there are only errors.
Thrown(results) ==
  IF Len(results) = 1 THEN results[1] ELSE GenericClientError

\* -------------------------------------------------- batch engine: actions

\* The body of _multiAddRemoveRelationships: the chunks are built and
\* Promise.map starts as many chunk requests as the limit allows.  The order
\* in which Promise.map calls the mapper is not specified by the library.
BeginBatch(nid) ==
  /\ LET chunks == BuildChunks(nid)
         n == Len(chunks)
         k == Min(n, FreeSlots(0))
     IN  \E order \in Orders(1..n, k) :
           /\ nodeId' = nid
           /\ idChunks' = chunks
           /\ chunkSt' = [i \in 1..n |->
                           IF i \in Range(order) THEN "inflight" ELSE "queued"]
           /\ values' = [i \in 1..n |-> Pending]
           /\ dispatched' = order
           /\ headers' = HeadersAfterAll(headers, config, chunks, order)
  /\ bpc' = "mapping"
  /\ bOut' = NoOut
  /\ completed' = <<>>

\* A caller other than the workflow calls _multiAddRemoveRelationships.
MultiAddRemoveRelationships(nid) ==
  /\ bpc = "idle"
  /\ spc = "idle"
  /\ BeginBatch(nid)
  /\ UNCHANGED <<fetchVars, syncVars, config, opCall, request, worldVars>>

\* The request of chunk i settles with outcome o and the mapper's chain
\* .then(parseJsonRes).then(res => res).catch(err => err) runs.  When the
\* mapper's promise is fulfilled, Promise.map stores its value and starts
\* queued chunks in the freed slot; a rejected mapper promise would reject
\* Promise.map at once, with nothing more started.
ChunkSettles(i, o) ==
  /\ bpc = "mapping"
  /\ i \in DOMAIN chunkSt
  /\ chunkSt[i] = "inflight"
  /\ completed' = Append(completed, o)
  /\ LET m == MapperSettles(o)
         st == [chunkSt EXCEPT ![i] = "settled"]
         queued == ChunksIn(st, "queued")
         free == FreeSlots(Cardinality(ChunksIn(st, "inflight")))
         k == Min(Cardinality(queued), IF free < 0 THEN 0 ELSE free)
     IN  IF m.fulfilled
           THEN /\ \E order \in Orders(queued, k) :
                     /\ chunkSt' = [j \in DOMAIN st |->
                                     IF j \in Range(order) THEN "inflight" ELSE st[j]]
                     /\ dispatched' = dispatched \o order
                     /\ headers' =
                          HeadersAfterAll(headers, config, idChunks, order)
                /\ values' = PlaceOutcome(values, i, m.value, Len(completed))
                /\ UNCHANGED <<bpc, bOut>>
           ELSE /\ chunkSt' = st
                /\ bpc' = "raised"
                /\ bOut' = Raised(m.value)
                /\ UNCHANGED <<values, dispatched, headers>>
  /\ remote' = IF spc = "addFollows" /\ o.kind = "ok"
                 THEN Records(remote, newConceptsToFollow)
                 ELSE remote
  /\ UNCHANGED <<nodeId, idChunks>>
  /\ UNCHANGED <<fetchVars, syncVars, config, opCall, request, previous>>

\* .then(results => ...): runs once every chunk has settled.
Aggregate ==
  /\ bpc = "mapping"
  /\ ChunksIn(chunkSt, "settled") = DOMAIN chunkSt
  /\ IF NotAllErrors(values)
       THEN bpc' = "returned" /\ bOut' = Returned(values)
       ELSE bpc' = "raised" /\ bOut' = Raised(Thrown(values))
  /\ UNCHANGED <<nodeId, idChunks, chunkSt, values, dispatched, completed>>
  /\ UNCHANGED <<fetchVars, syncVars, moduleVars, worldVars>>

BatchInit ==
  /\ bpc = "idle"
  /\ nodeId = [list |-> TRUE, ids |-> <<>>]
  /\ idChunks = <<>>
  /\ chunkSt = <<>>
  /\ values = <<>>
  /\ bOut = NoOut
  /\ dispatched = <<>>
  /\ completed = <<>>

BatchNext ==
  \/ \E nid \in NodeIdInputs : MultiAddRemoveRelationships(nid)
  \/ \E i \in 1..MaxIds : \E o \in ChunkOutcomes(i) : ChunkSettles(i, o)
  \/ Aggregate

\* ----------------------------------------------------- paged fetch: data

\* A reply of the remote to one GET, after helpers.parseJsonRes: the parsed
\* body of a page (`list`: its `items` is an array, of elements `elems`;
\* `t`, `n`: its `total`), or the error the request ended in.
Reply(kind, list, elems, t, n) ==
  [kind |-> kind, list |-> list, elems |-> elems, t |-> t, n |-> n]

NoReply == Reply("none", FALSE, <<>>, "absent", 0)

ErrorReply(k) == Reply(k, FALSE, <<>>, "absent", 0)

\* A total so large that no page the counter can reach covers it.
HugeTotal == PageCeiling * PageLimit + 1

\* The `total` of a body: absent, a number, a string of digits, or a string
\* that holds no number.
Totals ==
  {<<"absent", 0>>, <<"text", 0>>, <<"digits", 2 * PageLimit>>}
  \cup {<<"num", n>> : n \in {0, PageLimit, PageLimit + 1, 2 * PageLimit,
                               2 * PageLimit + 1, HugeTotal}}

\* The `items` of a page: up to two concepts.
ItemLists == UNION {Orders(Concepts, n) : n \in 0..2}

PageReplies ==
  {Reply("page", TRUE, e, tn[1], tn[2]) : e \in ItemLists, tn \in Totals}
  \cup {Reply("page", FALSE, <<>>, tn[1], tn[2]) : tn \in Totals}

Replies == PageReplies \cup {ErrorReply(k) : k \in RequestErrorKinds}

\* !!response.total
Truthy(r) == (r.t = "num" /\ r.n # 0) \/ r.t \in {"digits", "text"}

\* The comparison taken with <= in the place of <.
BelowOrAtTotal(covered, r) == r.t \in {"num", "digits"} /\ covered <= r.n

\* page * limit < parseInt(response.total, 10): parseInt gives NaN for what
\* holds no number, and no comparison with NaN is true.
BelowTotal(covered, r) == r.t \in {"num", "digits"} /\ covered < r.n

\* The test made on the total of the first page of the fetch.
MorePagesByFirstTotal(p, r) ==
  LET first == IF served = <<>> THEN r ELSE served[1]
  IN  Truthy(first) /\ BelowTotal(p * PageLimit, first)

\* The test of thenFn for "there are more pages".
MorePages(p, r) == Truthy(r) /\ BelowTotal(p * PageLimit, r)

\* params.page++
PageInc(p) == IF p < PageCeiling THEN p + 1 ELSE p

\* The items put first, in the place of allItems.concat(items).
ConcatFront(all, items) == items \o all

\* allItems.concat(response.items)
Concat(all, items) == all \o items

\* -------------------------------------------------- paged fetch: actions

\* The body of _getAllNodeItems: page 1 is requested.
BeginFetch ==
  /\ fpc' = "waiting"
  /\ page' = 1
  /\ allItems' = <<>>
  /\ fwire' = NoReply
  /\ fOut' = NoOut
  /\ asked' = 1
  /\ served' = <<>>
  /\ exact' = TRUE
  /\ headers' = HeadersAfter(headers, config, "GET", 0)

\* A caller other than the workflow calls _getAllNodeItems.
GetAllNodeItems ==
  /\ fpc = "idle"
  /\ spc = "idle"
  /\ BeginFetch
  /\ UNCHANGED <<batchVars, syncVars, config, opCall, request, worldVars>>

\* The remote answers the request in flight.
RemoteServes(r) ==
  /\ fpc = "waiting"
  /\ fwire = NoReply
  /\ Len(allItems) + Len(r.elems) <= MaxItems
  /\ fwire' = r
  /\ UNCHANGED <<fpc, page, allItems, fOut, asked, served, exact>>
  /\ UNCHANGED <<batchVars, syncVars, moduleVars, worldVars>>

\* thenFn runs on a parsed body.
ThenFn ==
  /\ fpc = "waiting"
  /\ fwire.kind = "page"
  /\ LET r == fwire
         items == IF r.list THEN Concat(allItems, r.elems) ELSE allItems
         more == r.list /\ MorePages(page, r)
     IN  /\ allItems' = items
         /\ served' = IF exact THEN Append(served, r) ELSE served
         /\ IF more
              THEN /\ page' = PageInc(page)
                   /\ exact' = (exact /\ PageInc(page) # page)
                   /\ asked' = IF exact' THEN asked + 1 ELSE asked
                   /\ headers' = HeadersAfter(headers, config, "GET", 0)
                   /\ UNCHANGED <<fpc, fOut>>
              ELSE /\ fpc' = "done"
                   /\ fOut' = Returned(items)
                   /\ UNCHANGED <<page, asked, exact, headers>>
  /\ fwire' = NoReply
  /\ UNCHANGED <<batchVars, syncVars, config, opCall, request, worldVars>>

\* The request failed: nothing catches it, the promise of the fetch rejects.
FetchRejected ==
  /\ fpc = "waiting"
  /\ fwire.kind \in RequestErrorKinds
  /\ fpc' = "failed"
  /\ fOut' = Raised(fwire)
  /\ fwire' = NoReply
  /\ UNCHANGED <<page, allItems, asked, served, exact>>
  /\ UNCHANGED <<batchVars, syncVars, moduleVars, worldVars>>

FetchInit ==
  /\ fpc = "idle"
  /\ page = 1
  /\ allItems = <<>>
  /\ fwire = NoReply
  /\ fOut = NoOut
  /\ asked = 0
  /\ served = <<>>
  /\ exact = TRUE

FetchNext ==
  \/ GetAllNodeItems
  \/ \E r \in Replies : RemoteServes(r)
  \/ ThenFn
  \/ FetchRejected

\* ------------------------------------------------------- workflow: data

GroupIds == {"g1"}

SyncUserIds == {"u1"}

\* A concept as the remote lists it: its uuid and, when the remote tags the
\* item with the properties of a relationship, its `_rel`.
ConceptItem(c, rel) == [uuid |-> c, rel |-> rel]

SyncItems ==
  {ConceptItem(c, "none") : c \in Concepts} \cup {ConceptItem("A", "tagged")}

SyncItemLists == UNION {Orders(SyncItems, n) : n \in 0..2}

\* What the remote may reply to the paged fetches of a workflow run.
SyncReplies ==
  {Reply("page", TRUE, e, tn[1], tn[2]) :
     e \in SyncItemLists, tn \in {<<"absent", 0>>, <<"num", PageLimit + 1>>}}
  \cup {Reply("page", FALSE, <<>>, "absent", 0)}
  \cup {ErrorReply(k) : k \in RequestErrorKinds}

\* How a single request (the preference read) or the kinesis write ends.
CallOutcomes == {"ok"} \cup RequestErrorKinds

\* Relationship properties: `attributed` stands for the byTool and byUser
\* of relationshipProperties; a field that is not set is "".
RelProps(attributed, type, timezone, asMemberOf) ==
  [attributed |-> attributed, type |-> type, timezone |-> timezone,
   asMemberOf |-> asMemberOf]

NoProps == RelProps(FALSE, "", "", "")

\* const followedProperties = Object.assign({}, relationshipProperties)
followedProperties == RelProps(TRUE, "", "", "")

\* const digestProperties = Object.assign({"type": "daily", "timezone":
\* "Europe/London"}, relationshipProperties)
digestProperties == RelProps(TRUE, "daily", "Europe/London", "")

\* The follow properties without the group.
FollowPropsNoGroup(g) == followedProperties

\* const followProps = Object.assign({}, followedProperties);
\* followProps.asMemberOf = groupId
FollowProps(g) == [followedProperties EXCEPT !.asMemberOf = g]

\* One call of the workflow: the operation, the concepts it carries, the
\* relationship properties it tags them with and, once the call has ended,
\* how it ended ("ok" or the kind of its error).
Call(op, concepts, rel) ==
  [op |-> op, concepts |-> concepts, rel |-> rel, end |-> "pending"]

\* The history with the end of its last call filled in.
Ended(cs, e) == [cs EXCEPT ![Len(cs)].end = e]

\* How a call that ended in `out` ended.
EndOf(out) == IF out.status = "raised" THEN out.error.kind ELSE "ok"

\* The concepts left as they are, in the place of the copies without _rel.
CleanConceptsNot(concepts) == concepts

\* newConceptsToFollow.map(item => { const newItem = Object.assign({}, item);
\* delete newItem._rel; return newItem; })
CleanConcepts(concepts) ==
  [i \in DOMAIN concepts |-> ConceptItem(concepts[i].uuid, "none")]

\* conceptsResp.map(concept => concept.uuid)
Uuids(concepts) == {concepts[i].uuid : i \in DOMAIN concepts}

\* {user: {uuid, group, status, reason}} and
\* {user: {uuid, status, group, newConceptsToFollow}}
SyncResult(u, g, status, reason, new) ==
  [uuid |-> u, group |-> g, status |-> status, reason |-> reason,
   newConceptsToFollow |-> new]

\* The test on the group's concepts taken with >= in the place of >.
HasConceptsOrNone(concepts) == Len(concepts) >= 0

\* conceptCount > 0
HasConcepts(concepts) == Len(concepts) > 0

\* A filter that keeps every concept of the group.
FilterNewKeepsAll(concepts, userConceptIds) == concepts

\* The filter with its test inverted: the concepts the user follows.
FilterNewInverted(concepts, userConceptIds) ==
  SelectSeq(concepts, LAMBDA c : c.uuid \in userConceptIds)

\* groupConcepts.filter(item => userConceptIds.indexOf(item.uuid) === -1)
RECURSIVE FilterNew(_, _)
FilterNew(concepts, userConceptIds) ==
  IF concepts = <<>> THEN <<>>
  ELSE (IF Head(concepts).uuid \in userConceptIds
          THEN <<>> ELSE <<Head(concepts)>>)
         \o FilterNew(Tail(concepts), userConceptIds)

\* Every error of the preference read taken for "no preference".
PreferenceMissingOnAnyError(o) == o # "ok"

\* err instanceof clientErrors.NotFoundError, on the preference read
PreferenceMissing(o) == o = "NotFoundError"

\* A catch that takes every error for "no concepts".
AnyErrorAsEmpty(out) ==
  IF out.status = "raised" THEN Returned(<<>>) ELSE out

\* No catch: a not-found is an error like any other.
NotFoundRaises(out) == out

\* .catch(err => { if (err instanceof NotFoundError) return []; throw err; })
\* on a fetch that ended in `out`.
NotFoundAsEmpty(out) ==
  IF out.status = "raised" /\ out.error.kind = "NotFoundError"
    THEN Returned(<<>>)
    ELSE out

\* What the remote may have on record when the process starts.
Remotes == [group : SyncItemLists, user : SUBSET Concepts]

\* The lists the remote can give for the concepts of the uuids in S: one
\* item for each uuid, in any order.
ListsOf(S) ==
  {l \in Orders(SyncItems, Cardinality(S)) : Uuids(l) = S}

\* What a remote that answers from its record replies to the fetch in
\* flight, the group's or the user's: the whole list in one page with its
\* total, or a not-found when there is nothing to list.
RecordedReplies ==
  LET lists == IF spc = "groupConcepts"
                 THEN {remote.group} ELSE ListsOf(remote.user)
  IN  {Reply("page", TRUE, l, "num", Len(l)) : l \in lists}
      \cup (IF <<>> \in lists THEN {ErrorReply("NotFoundError")} ELSE {})

\* ----------------------------------------------------- workflow: actions

\* syncUserFollowers(groupId, userId) is called: the concepts followed by
\* the group are fetched.
SyncUserFollowers(g, u) ==
  /\ spc = "idle"
  /\ fpc = "idle"
  /\ bpc = "idle"
  /\ spc' = "groupConcepts"
  /\ groupId' = g
  /\ userId' = u
  /\ calls' = <<Call("getConceptsFollowedByGroup", <<>>, NoProps)>>
  /\ BeginFetch
  /\ UNCHANGED <<groupConcepts, newConceptsToFollow, sOut>>
  /\ UNCHANGED <<batchVars, config, opCall, request, worldVars>>

\* The workflow ends with a rejection.
SyncFails(err) ==
  /\ spc' = "failed"
  /\ sOut' = Raised(err)

\* The fetch of the group's concepts has ended: a not-found counts as no
\* concepts; with concepts, the concepts followed by the user are fetched.
\* (What the fetch returns is always an array, so the "is not an array"
\* throw is never taken.)
SyncGroupConceptsFetched ==
  /\ spc = "groupConcepts"
  /\ fpc \in {"done", "failed"}
  /\ LET out == NotFoundAsEmpty(fOut)
     IN  IF out.status = "raised"
           THEN /\ SyncFails(out.error)
                /\ calls' = Ended(calls, EndOf(fOut))
                /\ UNCHANGED <<groupConcepts, fetchVars, headers>>
           ELSE /\ groupConcepts' = out.value
                /\ IF HasConcepts(out.value)
                     THEN /\ spc' = "userConcepts"
                          /\ calls' = Append(Ended(calls, EndOf(fOut)),
                               Call("getConceptsFollowedByUser", <<>>, NoProps))
                          /\ BeginFetch
                          /\ UNCHANGED sOut
                     ELSE /\ spc' = "done"
                          /\ sOut' = Returned(SyncResult(userId, groupId,
                               "synchronisationIgnored",
                               "noGroupConceptsToFollow", <<>>))
                          /\ calls' = Ended(calls, EndOf(fOut))
                          /\ UNCHANGED <<fetchVars, headers>>
  /\ UNCHANGED <<groupId, userId, newConceptsToFollow>>
  /\ UNCHANGED <<batchVars, config, opCall, request, worldVars>>

\* The fetch of the user's concepts has ended: a not-found counts as no
\* concepts; the group's concepts the user does not follow are added as
\* followed by the user, as a member of the group.
SyncUserConceptsFetched ==
  /\ spc = "userConcepts"
  /\ fpc \in {"done", "failed"}
  /\ LET out == NotFoundAsEmpty(fOut)
     IN  IF out.status = "raised"
           THEN /\ SyncFails(out.error)
                /\ calls' = Ended(calls, EndOf(fOut))
                /\ UNCHANGED <<newConceptsToFollow, batchVars, headers>>
           ELSE LET new == FilterNew(groupConcepts, Uuids(out.value))
                IN  IF new = <<>>
                      THEN /\ spc' = "done"
                           /\ sOut' = Returned(SyncResult(userId, groupId,
                                "synchronisationIgnored",
                                "noNewConceptsToFollow", <<>>))
                           /\ calls' = Ended(calls, EndOf(fOut))
                           /\ UNCHANGED <<newConceptsToFollow, batchVars, headers>>
                      ELSE /\ spc' = "addFollows"
                           /\ newConceptsToFollow' = new
                           /\ calls' = Append(Ended(calls, EndOf(fOut)),
                                Call("addConceptsFollowedByUser", new,
                                     FollowProps(groupId)))
                           /\ BeginBatch([list |-> FALSE, id |-> userId])
                           /\ UNCHANGED sOut
  /\ UNCHANGED <<groupId, userId, groupConcepts>>
  /\ UNCHANGED <<fetchVars, config, opCall, request, worldVars>>

\* kinesis.write(userId, 'subscribe', cleanConcepts) is called, the call
\* before it having ended in e.
Emit(e) ==
  /\ spc' = "emit"
  /\ calls' = Append(Ended(calls, e),
       Call("kinesis.write", CleanConcepts(newConceptsToFollow), NoProps))

\* The follows were added (or the call failed): the user's digest
\* preference is read.
SyncFollowsAdded ==
  /\ spc = "addFollows"
  /\ bpc \in {"returned", "raised"}
  /\ IF bpc = "raised"
       THEN /\ SyncFails(bOut.error)
            /\ calls' = Ended(calls, EndOf(bOut))
            /\ UNCHANGED headers
       ELSE /\ spc' = "getPref"
            /\ calls' = Append(Ended(calls, EndOf(bOut)),
                 Call("getEmailDigestPreference", <<>>, NoProps))
            /\ headers' = HeadersAfter(headers, config, "GET", 0)
            /\ UNCHANGED sOut
  /\ UNCHANGED <<groupId, userId, groupConcepts, newConceptsToFollow>>
  /\ UNCHANGED <<batchVars, fetchVars, config, opCall, request, worldVars>>

\* The read of the preference ends in o: with a not-found the preference is
\* set to digestProperties, any other error is thrown again.
SyncPreferenceRead(o) ==
  /\ spc = "getPref"
  /\ IF o = "ok"
       THEN /\ Emit(o)
            /\ UNCHANGED <<sOut, batchVars, headers>>
       ELSE IF PreferenceMissing(o)
         THEN /\ spc' = "setPref"
              /\ calls' = Append(Ended(calls, o),
                   Call("setEmailDigestPreference", <<>>, digestProperties))
              /\ BeginBatch([list |-> FALSE, id |-> userId])
              /\ UNCHANGED sOut
         ELSE /\ SyncFails(ErrOutcome(o, 1))
              /\ calls' = Ended(calls, o)
              /\ UNCHANGED <<batchVars, headers>>
  /\ UNCHANGED <<groupId, userId, groupConcepts, newConceptsToFollow>>
  /\ UNCHANGED <<fetchVars, config, opCall, request, worldVars>>

\* The preference was set (or the call failed).
SyncPreferenceSet ==
  /\ spc = "setPref"
  /\ bpc \in {"returned", "raised"}
  /\ IF bpc = "raised"
       THEN /\ SyncFails(bOut.error)
            /\ calls' = Ended(calls, EndOf(bOut))
       ELSE /\ Emit(EndOf(bOut))
            /\ UNCHANGED sOut
  /\ UNCHANGED <<groupId, userId, groupConcepts, newConceptsToFollow>>
  /\ UNCHANGED <<batchVars, fetchVars, moduleVars, worldVars>>

\* The kinesis write ends in o.
SyncEmitted(o) ==
  /\ spc = "emit"
  /\ IF o = "ok"
       THEN /\ spc' = "done"
            /\ sOut' = Returned(SyncResult(userId, groupId,
                 "synchronisationCompleted", "", newConceptsToFollow))
       ELSE SyncFails(ErrOutcome(o, 1))
  /\ calls' = Ended(calls, o)
  /\ UNCHANGED <<groupId, userId, groupConcepts, newConceptsToFollow>>
  /\ UNCHANGED <<batchVars, fetchVars, moduleVars, worldVars>>

SyncInit ==
  /\ spc = "idle"
  /\ groupId = "g1"
  /\ userId = "u1"
  /\ groupConcepts = <<>>
  /\ newConceptsToFollow = <<>>
  /\ sOut = NoOut
  /\ calls = <<>>

SyncNext ==
  \/ \E g \in GroupIds, u \in SyncUserIds : SyncUserFollowers(g, u)
  \/ \E r \in SyncReplies : RemoteServes(r)
  \/ ThenFn
  \/ FetchRejected
  \/ SyncGroupConceptsFetched
  \/ SyncUserConceptsFetched
  \/ \E o \in ChunkOutcomes(1) : ChunkSettles(1, o)
  \/ Aggregate
  \/ SyncFollowsAdded
  \/ \E o \in CallOutcomes : SyncPreferenceRead(o)
  \/ SyncPreferenceSet
  \/ \E o \in CallOutcomes : SyncEmitted(o)

\* syncUserFollowers is called again for the same group and user, the first
\* run having ended: a new run starts, with locals of its own.
SyncUserFollowersAgain(g, u) ==
  /\ spc \in {"done", "failed"}
  /\ previous = NoOut
  /\ g = groupId
  /\ u = userId
  /\ previous' = sOut
  /\ spc' = "groupConcepts"
  /\ calls' = <<Call("getConceptsFollowedByGroup", <<>>, NoProps)>>
  /\ groupConcepts' = <<>>
  /\ newConceptsToFollow' = <<>>
  /\ sOut' = NoOut
  /\ BeginFetch
  /\ UNCHANGED <<groupId, userId>>
  /\ UNCHANGED <<batchVars, config, opCall, request, remote>>

\* A workflow run, twice, against a remote that answers the fetches from
\* its record.
SyncTwiceNext ==
  \/ \E g \in GroupIds, u \in SyncUserIds : SyncUserFollowers(g, u)
  \/ \E g \in GroupIds, u \in SyncUserIds : SyncUserFollowersAgain(g, u)
  \/ \E r \in RecordedReplies : RemoteServes(r)
  \/ ThenFn
  \/ FetchRejected
  \/ SyncGroupConceptsFetched
  \/ SyncUserConceptsFetched
  \/ \E o \in ChunkOutcomes(1) : ChunkSettles(1, o)
  \/ Aggregate
  \/ SyncFollowsAdded
  \/ \E o \in CallOutcomes : SyncPreferenceRead(o)
  \/ SyncPreferenceSet
  \/ \E o \in CallOutcomes : SyncEmitted(o)

\* ------------------------------------------- mutation operations: data

\* The operations on members call _addRemoveRelationships (one request).
MemberOps ==
  {"addUsersToLicence", "removeUsersFromLicence", "addUsersToGroup",
   "removeUsersFromGroup", "addGroupsToLicence", "removeGroupsFromLicence"}

\* The operations on follows: the additions call the batch engine, the
\* removals call _addRemoveRelationships.
FollowOps ==
  {"addConceptsFollowedByUser", "addConceptsFollowedByGroup",
   "removeConceptsFollowedByUser", "removeConceptsFollowedByGroup"}

PreferenceOps == {"setEmailDigestPreference"}

MutationOperations == MemberOps \cup FollowOps \cup PreferenceOps

\* The operations that call _multiAddRemoveRelationships.
BatchOps ==
  {"addConceptsFollowedByUser", "addConceptsFollowedByGroup",
   "setEmailDigestPreference"}

\* The method an operation sends its requests with.
MethodOf(op) ==
  IF op \in {"removeUsersFromLicence", "removeUsersFromGroup",
             "removeGroupsFromLicence", "removeConceptsFollowedByUser",
             "removeConceptsFollowedByGroup"}
    THEN "DELETE" ELSE "POST"

\* An options bag: a key the caller leaves out is "omitted".
OptionValues == FlagValues \cup {"omitted"}

OptionBags == [noEvent : OptionValues, waitForPurge : OptionValues]

NoOptions == [noEvent |-> "omitted", waitForPurge |-> "omitted"]

\* The ids an operation is called on: one id, or a list of three.
OperationIds ==
  {[list |-> FALSE, id |-> "u1"], [list |-> TRUE, ids |-> <<"u1", "u2", "u1">>]}

\* Object.assign(target, source), on the two keys of an options bag.
Assign(target, source) ==
  [k \in DOMAIN target |->
     IF source[k] = "omitted" THEN target[k] ELSE source[k]]

\* {noEvent: config.MYFT_NO_EVENT, waitForPurge: config.MYFT_WAIT_FOR_PURGE_ADD}
DefaultParams(cfg) ==
  [noEvent |-> cfg.MYFT_NO_EVENT, waitForPurge |-> cfg.MYFT_WAIT_FOR_PURGE_ADD]

\* const params = Object.assign({noEvent: ..., waitForPurge: ...}, options)
MergeParams(cfg, options) == Assign(DefaultParams(cfg), options)

\* The options an operation hands on to _addRemoveRelationships or to
\* _multiAddRemoveRelationships: the operations on follows have no options
\* parameter and hand on none.
OptionsPassedOn(op, options) ==
  IF op \in FollowOps THEN NoOptions ELSE options

NoCall == [op |-> "none", options |-> NoOptions, params |-> NoOptions]

\* ---------------------------------------- mutation operations: actions

\* A caller calls a mutation operation with an options bag.  The params of
\* its requests are merged from the configuration and the options handed
\* on; an operation of the batch engine then starts the engine, any other
\* builds its one request.
CallMutation(op, options, ids) ==
  /\ bpc = "idle"
  /\ fpc = "idle"
  /\ spc = "idle"
  /\ opCall.op = "none"
  /\ opCall' = [op |-> op, options |-> options,
                params |-> MergeParams(config, OptionsPassedOn(op, options))]
  /\ IF op \in BatchOps
       THEN BeginBatch(ids)
       ELSE /\ headers' =
                 HeadersAfter(headers, config, MethodOf(op), BodyBytes(ids))
            /\ UNCHANGED batchVars
  /\ UNCHANGED <<fetchVars, syncVars, config, request, worldVars>>

OperationsNext ==
  \/ \E op \in MutationOperations, options \in OptionBags, ids \in OperationIds :
       CallMutation(op, options, ids)
  \/ \E i \in 1..MaxIds : \E o \in ChunkOutcomes(i) : ChunkSettles(i, o)
  \/ Aggregate

\* ------------------------------------------------- request builder: data

\* A component of a path, as the builder is given it: undefined, or a
\* string.
Undefined == [defined |-> FALSE]

Str(s) == [defined |-> TRUE, str |-> s]

\* `${x}` in a template literal.
Interpolate(x) == IF x.defined THEN x.str ELSE "undefined"

Methods == {"GET", "POST", "PUT", "DELETE"}

\* myftConst: the kinds of node, the names and types of relationship.
NodeKinds == {"user", "group", "license"}

RelationshipKinds == {"member", "followed", "preferred"}

RelatedNodeKinds == {"user", "group", "concept", "preference"}

NodeUuids == {"n1"}

RelatedUuids == {"email-digest", "r1"}

Optional(S) == {Undefined} \cup {Str(x) : x \in S}

\* theUrl += `/${x}`, whatever x is.
AppendAlways(theUrl, x) == theUrl \o <<"/", Interpolate(x)>>

\* if (x !== undefined) { theUrl += `/${x}`; }
AppendIfDefined(theUrl, x) ==
  IF x # Undefined THEN theUrl \o <<"/", Interpolate(x)>> ELSE theUrl

\* theUrl as _createAndTriggerRelationshipRequest builds it, a sequence of
\* the pieces it is put together from.
TheUrl(node, nId, relationship, relatedNode, relatedNodeId) ==
  AppendIfDefined(
    AppendIfDefined(
      AppendIfDefined(
        AppendIfDefined(<<"MYFT_API_URL", "/", Interpolate(node)>>, nId),
        relationship),
      relatedNode),
    relatedNodeId)

NoRequest == [method |-> "none", components |-> <<>>, theUrl |-> <<>>]

\* Buffer.byteLength(JSON.stringify({}))
EmptyBodyBytes == 2

\* ---------------------------------------------- request builder: actions

\* A first call of _createAndTriggerRelationshipRequest, without data or params:
\* the URL is built and handed to _doRelationshipRequest, which adds no
\* query string to it and, in production, writes the Content-Length.
CreateAndTriggerRelationshipRequest(method, node, nId, relationship, relatedNode, relatedNodeId) ==
  /\ request = NoRequest
  /\ request' =
       [method |-> method,
        components |-> <<node, nId, relationship, relatedNode, relatedNodeId>>,
        theUrl |-> TheUrl(node, nId, relationship, relatedNode, relatedNodeId)]
  /\ headers' = HeadersAfter(headers, config, method, EmptyBodyBytes)
  /\ UNCHANGED <<batchVars, fetchVars, syncVars, config, opCall, worldVars>>

RequestNext ==
  \E method \in Methods, node \in NodeKinds, nId \in Optional(NodeUuids),
     relationship \in Optional(RelationshipKinds),
     relatedNode \in Optional(RelatedNodeKinds),
     relatedNodeId \in Optional(RelatedUuids) :
    CreateAndTriggerRelationshipRequest(method, Str(node), nId, relationship,
                                        relatedNode, relatedNodeId)

\* --------------------------------------------------------- specifications

\* The configuration the comments of the source call the default: events
\* are not suppressed, a purge is waited for; outside production.
DefaultConfig ==
  [NODE_ENV |-> "development", MYFT_NO_EVENT |-> "false",
   MYFT_WAIT_FOR_PURGE_ADD |-> "true"]

ModuleInit(cfgs) ==
  /\ config \in cfgs
  /\ headers = NoContentLength
  /\ opCall = NoCall
  /\ request = NoRequest

WorldInit(remotes) ==
  /\ remote \in remotes
  /\ previous = NoOut

Init ==
  /\ BatchInit /\ FetchInit /\ SyncInit
  /\ ModuleInit({DefaultConfig})
  /\ WorldInit({NoRemote})

\* The process started under any configuration.
InitAnyConfig ==
  /\ BatchInit /\ FetchInit /\ SyncInit
  /\ ModuleInit(Configs)
  /\ WorldInit({NoRemote})

\* The process started with a remote that has any follows on record.
InitAnyRemote ==
  /\ BatchInit /\ FetchInit /\ SyncInit
  /\ ModuleInit({DefaultConfig})
  /\ WorldInit(Remotes)

SpecBatch == Init /\ [][BatchNext]_vars

\* Every transport call ends (the transport has its own timeout and retry
\* policy), and a resolved Promise.map runs its .then callback.
SpecBatchFair ==
  /\ SpecBatch
  /\ WF_vars(\E i \in 1..MaxIds : \E o \in ChunkOutcomes(i) : ChunkSettles(i, o))
  /\ WF_vars(Aggregate)

SpecFetch == Init /\ [][FetchNext]_vars

\* Every request is answered, and a settled promise runs its callbacks.
SpecFetchFair ==
  /\ SpecFetch
  /\ WF_vars(\E r \in Replies : RemoteServes(r))
  /\ WF_vars(ThenFn)
  /\ WF_vars(FetchRejected)

SpecSync == Init /\ [][SyncNext]_vars

\* One caller at a time calls one operation of the client: the batch engine,
\* the paged fetch, or the workflow (which calls the other two itself).
ClientNext ==
  \/ fpc = "idle" /\ spc = "idle" /\ BatchNext
  \/ bpc = "idle" /\ spc = "idle" /\ FetchNext
  \/ (spc # "idle" \/ (bpc = "idle" /\ fpc = "idle")) /\ SyncNext

SpecClient == Init /\ [][ClientNext]_vars

\* A caller calls one mutation operation, under any configuration.
SpecOperations == InitAnyConfig /\ [][OperationsNext]_vars

\* Two runs of the workflow against a remote that records the follows it
\* is sent and answers the fetches from its record.
SpecSyncTwice == InitAnyRemote /\ [][SyncTwiceNext]_vars

\* A caller calls the request builder, under any configuration.
SpecRequest == InitAnyConfig /\ [][RequestNext]_vars

\* ----------------------------------------------------- batch engine: claims

BatchDone == bpc \in {"returned", "raised"}

InFlight == ChunksIn(chunkSt, "inflight")

\* The outcome the request of chunk i ended in, from the history.
EndedIn(i) == CHOOSE o \in Range(completed) : o.req = i

\* The position of chunk i's request in the completion order.
CompletedAt(i) == CHOOSE p \in DOMAIN completed : completed[p].req = i

CeilDiv(a, b) == (a + b - 1) \div b

RequestsExpected ==
  IF nodeId.list THEN CeilDiv(Len(nodeId.ids), BATCH_USER_COUNT) ELSE 1

\* C1: the list the engine returns has one outcome per chunk and outcome i
\* is the outcome of the request sent for chunk i, whatever the order in
\* which the requests completed.
C1_OutcomeOrderIsChunkOrder ==
  bpc = "returned" =>
    /\ Len(bOut.value) = Len(idChunks)
    /\ \A i \in DOMAIN bOut.value : bOut.value[i].req = i

\* A batch that returned although a later chunk completed before an earlier.
C1_Witness ==
  /\ bpc = "returned"
  /\ \E i, j \in DOMAIN idChunks : i < j /\ CompletedAt(j) < CompletedAt(i)

\* C2: at no time are more than BATCH_USER_CONCURRENCY chunk requests
\* dispatched and not yet completed.
C2_InFlightAtMostLimit == Cardinality(InFlight) <= BATCH_USER_CONCURRENCY

\* The limit is reached while a chunk still waits in the queue.
C2_Witness ==
  /\ Cardinality(InFlight) = BATCH_USER_CONCURRENCY
  /\ ChunksIn(chunkSt, "queued") # {}

\* C3: a batch sends ceil(N / C) requests for a list of N ids and one for a
\* single id: never more, exactly that many once it has ended, and no chunk
\* twice, whatever the chunks' outcomes.
C3_RequestCount ==
  bpc # "idle" =>
    /\ Len(dispatched) <= RequestsExpected
    /\ \A p, q \in DOMAIN dispatched : p # q => dispatched[p] # dispatched[q]
    /\ BatchDone => Len(dispatched) = RequestsExpected

\* A batch of more than two chunks, one of them failed, has ended.
C3_Witness ==
  /\ BatchDone
  /\ Len(dispatched) > 2
  /\ \E p \in DOMAIN completed : IsError(completed[p])
  /\ \E p \in DOMAIN completed : ~IsError(completed[p])

AllChunksFailed ==
  /\ Len(completed) = Len(idChunks)
  /\ \A p \in DOMAIN completed : IsError(completed[p])

\* C4: when every chunk failed, a batch of two or more chunks raises one
\* generic ClientError that is none of the chunk errors, and a batch of one
\* chunk raises that chunk's error itself.
C4_AllFailedRaises ==
  (BatchDone /\ AllChunksFailed /\ Len(idChunks) >= 1) =>
    /\ bpc = "raised"
    /\ Len(idChunks) >= 2 =>
         /\ bOut.error.kind = "ClientError"
         /\ bOut.error \notin Range(completed)
         /\ DOMAIN bOut.error = {"kind"}
    /\ Len(idChunks) = 1 => bOut.error = completed[1]

\* A one-chunk batch raised a NotFoundError.
C4_Witness ==
  /\ bpc = "raised"
  /\ Len(idChunks) = 1
  /\ bOut.error.kind = "NotFoundError"

\* Several chunks, all failed, the generic error raised.
C4_WitnessMany ==
  /\ bpc = "raised"
  /\ Len(idChunks) >= 2
  /\ AllChunksFailed

\* C5: when at least one chunk succeeded the engine returns, and what it
\* returns has for every chunk the outcome its request ended in: the error
\* value of a failed chunk, the parsed response of a successful one.
C5_PartialSuccessReturns ==
  (BatchDone /\ \E p \in DOMAIN completed : completed[p].kind = "ok") =>
    /\ bpc = "returned"
    /\ DOMAIN bOut.value = DOMAIN idChunks
    /\ \A i \in DOMAIN bOut.value : bOut.value[i] = EndedIn(i)

\* A batch returned a list that holds an error and a response.
C5_Witness ==
  /\ bpc = "returned"
  /\ \E i, j \in DOMAIN bOut.value :
       IsError(bOut.value[i]) /\ bOut.value[j].kind = "ok"

\* C6: a failed chunk aborts nothing.  The engine ends only when every chunk
\* has completed, and when every transport call ends, a started batch sends
\* the request of every chunk and then returns or raises.
C6_NoFailFast ==
  /\ [](BatchDone => /\ Range(dispatched) = DOMAIN idChunks
                     /\ Len(completed) = Len(idChunks))
  /\ (bpc = "mapping") ~> (BatchDone /\ Range(dispatched) = DOMAIN idChunks)

\* A batch of more chunks than the limit ended, its first completion a
\* failure that came before the last chunk was sent.
C6_Witness ==
  /\ BatchDone
  /\ Len(idChunks) > BATCH_USER_CONCURRENCY
  /\ Len(completed) = Len(idChunks)
  /\ IsError(completed[1])

\* ------------------------------------------------------ paged fetch: claims

\* The items of the pages of a history, page after page.
RECURSIVE Flatten(_)
Flatten(pages) ==
  IF pages = <<>> THEN <<>>
  ELSE (IF Head(pages).list THEN Head(pages).elems ELSE <<>>)
         \o Flatten(Tail(pages))

\* C7: what the fetch returns is the items of every page it was served, page
\* after page, each page's items in their order, with nothing left out and
\* nothing twice.
C7_ReturnsConcatenation ==
  (fpc = "done" /\ exact) => fOut = Returned(Flatten(served))

\* A fetch of two pages of two items each has returned.
C7_Witness ==
  /\ fpc = "done"
  /\ exact
  /\ Len(served) = 2
  /\ \A i \in DOMAIN served : Len(served[i].elems) = 2
  /\ served[1].elems # served[2].elems

\* Every reply of the history is a page whose `items` is a list and whose
\* `total` is the number n.
SameTotal(n) ==
  \A i \in DOMAIN served :
    served[i].list /\ served[i].t \in {"num", "digits"} /\ served[i].n = n

TotalsServed == {served[i].n : i \in DOMAIN served}

\* C8 as stated: with the same total on every page, the fetch sends exactly
\* ceil(total / 500) requests.
C8_CeilRequests ==
  (fpc = "done" /\ exact) =>
    \A n \in TotalsServed : SameTotal(n) => asked = CeilDiv(n, PageLimit)

\* C8, amended: with the same total on every page, the fetch sends
\* ceil(total / 500) requests, and one request when the total is 0.
C8_CeilRequestsAtLeastOne ==
  (fpc = "done" /\ exact) =>
    \A n \in TotalsServed :
      SameTotal(n) =>
        asked = (IF n = 0 THEN 1 ELSE CeilDiv(n, PageLimit))

\* A fetch that was told a total of two pages and a bit on each of its pages
\* has returned.
C8_Witness ==
  /\ fpc = "done"
  /\ exact
  /\ SameTotal(2 * PageLimit + 1)
  /\ asked = 3

\* C9: a fetch that has started ends, whatever the remote replies.
C9_FetchEnds == (fpc = "waiting") ~> (fpc \in {"done", "failed"})

\* --------------------------------------------------------- workflow: claims

IgnoredNoGroupConcepts ==
  Returned(SyncResult(userId, groupId, "synchronisationIgnored",
                      "noGroupConceptsToFollow", <<>>))

MutationOps ==
  {"addConceptsFollowedByUser", "setEmailDigestPreference", "kinesis.write"}

\* C10: when the fetch of the group's concepts returns no concept, the run
\* ends there with synchronisationIgnored / noGroupConceptsToFollow, and a
\* run that ended so made no call but that fetch: no follow added, no
\* preference set, no request of the batch engine sent, nothing emitted.
C10_NoGroupConceptsIgnored ==
  /\ [][(spc = "groupConcepts" /\ fOut = Returned(<<>>) /\ spc' # spc) =>
          (spc' = "done" /\ sOut' = IgnoredNoGroupConcepts
           /\ Len(calls') = Len(calls))]_vars
  /\ [](sOut = IgnoredNoGroupConcepts =>
          /\ spc = "done"
          /\ \A i \in DOMAIN calls : calls[i].op \notin MutationOps
          /\ Len(calls) = 1
          /\ bpc = "idle"
          /\ dispatched = <<>>)

\* A run ended on a group that follows no concept.
C10_Witness ==
  /\ spc = "done"
  /\ fOut = Returned(<<>>)
  /\ sOut = IgnoredNoGroupConcepts

IgnoredNoNewConcepts ==
  Returned(SyncResult(userId, groupId, "synchronisationIgnored",
                      "noNewConceptsToFollow", <<>>))

\* Every concept of the group is among the concepts the user's fetch returned.
AllFollowedAlready ==
  /\ fOut.status = "returned"
  /\ \A i \in DOMAIN groupConcepts :
       \E j \in DOMAIN fOut.value : fOut.value[j].uuid = groupConcepts[i].uuid

\* C11: when the user already follows every concept the group follows, the
\* run ends with synchronisationIgnored / noNewConceptsToFollow, and a run
\* that ended so made no add-follow call: its two fetches are its only
\* calls and the batch engine sent nothing.
C11_AllFollowedIgnored ==
  /\ [][(spc = "userConcepts" /\ AllFollowedAlready /\ spc' # spc) =>
          (spc' = "done" /\ sOut' = IgnoredNoNewConcepts
           /\ Len(calls') = Len(calls) /\ UNCHANGED batchVars)]_vars
  /\ [](sOut = IgnoredNoNewConcepts =>
          /\ spc = "done"
          /\ \A i \in DOMAIN calls : calls[i].op \notin MutationOps
          /\ Len(calls) = 2
          /\ bpc = "idle"
          /\ dispatched = <<>>)

\* A run ended on a group of two concepts the user follows already, one of
\* them listed for the user with other relationship properties.
C11_Witness ==
  /\ spc = "done"
  /\ sOut = IgnoredNoNewConcepts
  /\ Len(groupConcepts) = 2
  /\ AllFollowedAlready
  /\ \E j \in DOMAIN fOut.value : fOut.value[j] \notin Range(groupConcepts)

\* The concepts the user's fetch returned.
UserFetched == IF fOut.status = "returned" THEN fOut.value ELSE <<>>

\* The concepts of the group, in the group's order, whose uuid is the uuid
\* of no concept the user's fetch returned.
ExpectedNew ==
  SelectSeq(groupConcepts,
            LAMBDA c : \A j \in DOMAIN UserFetched : UserFetched[j].uuid # c.uuid)

\* Every call of the run succeeded; a preference read that found no
\* preference counts as one.
EveryCallSucceeded ==
  \A i \in DOMAIN calls :
    \/ calls[i].end = "ok"
    \/ calls[i].op = "getEmailDigestPreference" /\ calls[i].end = "NotFoundError"

SyncCompleted ==
  /\ spc = "done"
  /\ sOut.status = "returned"
  /\ sOut.value.status = "synchronisationCompleted"

\* C12: a run on a group with a concept the user does not follow, all of
\* whose calls succeed, ends in synchronisationCompleted with the new
\* concepts; and a completed run made, after its two fetches, one add-follow
\* call for the user with exactly the new concepts and asMemberOf the group,
\* one preference read, one preference creation exactly when the read found
\* none, and last one kinesis write with the new concepts (same uuids, same
\* order, without _rel).
C12_NewConceptsSynchronised ==
  /\ (spc \in {"done", "failed"} /\ EveryCallSucceeded /\ ExpectedNew # <<>>)
       => SyncCompleted
  /\ SyncCompleted =>
       LET new == ExpectedNew
           prefMissing == calls[4].end = "NotFoundError"
       IN  /\ new # <<>>
           /\ calls[3] =
                [op |-> "addConceptsFollowedByUser", concepts |-> new,
                 rel |-> [attributed |-> TRUE, type |-> "", timezone |-> "",
                          asMemberOf |-> groupId],
                 end |-> "ok"]
           /\ nodeId = [list |-> FALSE, id |-> userId]
           /\ calls[4].op = "getEmailDigestPreference"
           /\ Len(calls) = IF prefMissing THEN 6 ELSE 5
           /\ prefMissing <=> (calls[5].op = "setEmailDigestPreference")
           /\ calls[Len(calls)] =
                [op |-> "kinesis.write",
                 concepts |-> [i \in DOMAIN new |->
                                 [uuid |-> new[i].uuid, rel |-> "none"]],
                 rel |-> NoProps, end |-> "ok"]
           /\ sOut = Returned(SyncResult(userId, groupId,
                       "synchronisationCompleted", "", new))

\* A completed run in which the group follows a concept the user follows
\* and one the user does not, and in which a preference existed.
C12_Witness ==
  /\ SyncCompleted
  /\ Len(groupConcepts) = 2
  /\ Len(ExpectedNew) = 1
  /\ Len(calls) = 5

\* C13: a preference read that ends in a not-found is followed by the
\* creation of the preference with the default digest properties (daily,
\* Europe/London, attributed); a preference read that ends in any other error
\* is the last call of the run, which fails with that error: no preference is
\* created and nothing is emitted.
C13_PreferenceReadErrors ==
  \A i \in DOMAIN calls :
    calls[i].op = "getEmailDigestPreference" =>
      /\ calls[i].end = "NotFoundError" =>
           /\ Len(calls) > i
           /\ calls[i + 1].op = "setEmailDigestPreference"
           /\ calls[i + 1].rel =
                [attributed |-> TRUE, type |-> "daily",
                 timezone |-> "Europe/London", asMemberOf |-> ""]
           /\ nodeId = [list |-> FALSE, id |-> userId]
      /\ calls[i].end \notin {"pending", "ok", "NotFoundError"} =>
           /\ i = Len(calls)
           /\ spc = "failed"
           /\ sOut.status = "raised"
           /\ sOut.error.kind = calls[i].end
           /\ \A j \in DOMAIN calls :
                calls[j].op \notin {"setEmailDigestPreference", "kinesis.write"}

\* A run that found no preference and has created one.
C13_Witness ==
  /\ Len(calls) >= 5
  /\ calls[4].end = "NotFoundError"
  /\ calls[5].op = "setEmailDigestPreference"
  /\ calls[5].end = "ok"

\* The fetch the workflow waits for has ended in a not-found.
FetchNotFound == fOut.status = "raised" /\ fOut.error.kind = "NotFoundError"

\* C14: a not-found on the fetch of the group's concepts is taken for "the
\* group follows nothing": the run ends, without an error, in
\* synchronisationIgnored / noGroupConceptsToFollow. A not-found on the fetch
\* of the user's concepts is taken for "the user follows nothing": every
\* concept of the group is new and is passed to the add-follow call.
C14_NotFoundOnFetchIsEmpty ==
  /\ [][(spc = "groupConcepts" /\ FetchNotFound /\ spc' # spc) =>
          (spc' = "done" /\ sOut' = IgnoredNoGroupConcepts
           /\ Len(calls') = Len(calls))]_vars
  /\ [][(spc = "userConcepts" /\ FetchNotFound /\ spc' # spc) =>
          /\ spc' = "addFollows"
          /\ sOut' = NoOut
          /\ newConceptsToFollow' = groupConcepts
          /\ Len(calls') = Len(calls) + 1
          /\ calls'[Len(calls')].op = "addConceptsFollowedByUser"
          /\ calls'[Len(calls')].concepts = groupConcepts]_vars

\* A completed run whose fetch of the user's concepts ended in a not-found
\* and which made the user follow the two concepts of the group.
C14_Witness ==
  /\ SyncCompleted
  /\ calls[2].end = "NotFoundError"
  /\ Len(groupConcepts) = 2
  /\ calls[3].concepts = groupConcepts

\* The calls of the workflow, in the order in which it makes them.
WorkflowOps ==
  <<"getConceptsFollowedByGroup", "getConceptsFollowedByUser",
    "addConceptsFollowedByUser", "getEmailDigestPreference",
    "setEmailDigestPreference", "kinesis.write">>

\* The place of an operation in that order.
OpRank(op) == CHOOSE k \in DOMAIN WorkflowOps : WorkflowOps[k] = op

\* C15: a call of the run (fetch of the group's concepts, fetch of the
\* user's, add-follow, preference read or creation, kinesis write) that ends
\* in an error other than a not-found is the last call of the run, and the
\* run has failed with that error; the calls of a run are only calls of the
\* workflow's own steps, each at most once and in the workflow's order (no
\* call undoes or repeats an earlier one), and a failed run takes no further
\* step.
C15_FailureAborts ==
  /\ [](\A i \in DOMAIN calls :
          calls[i].end \notin {"pending", "ok", "NotFoundError"} =>
            /\ i = Len(calls)
            /\ spc = "failed"
            /\ sOut.status = "raised"
            /\ sOut.error.kind = calls[i].end)
  /\ [](\A i \in DOMAIN calls :
          /\ calls[i].op \in Range(WorkflowOps)
          /\ \A j \in DOMAIN calls :
               i < j => OpRank(calls[i].op) < OpRank(calls[j].op))
  /\ [][spc = "failed" => UNCHANGED vars]_vars

\* A run that failed on the kinesis write, after the follows were added.
C15_Witness ==
  /\ spc = "failed"
  /\ Len(calls) >= 5
  /\ calls[3].end = "ok"
  /\ calls[Len(calls)].op = "kinesis.write"
  /\ calls[Len(calls)].end = "TransportError"
  /\ sOut.error.kind = "TransportError"

\* ------------------------------------------------- not-found errors: claims

\* A request of the batch ended in a not-found.
SomeChunkNotFound ==
  \E p \in DOMAIN completed : completed[p].kind = "NotFoundError"

\* The calls of the workflow on which it catches a not-found.
AbsorbingOps ==
  {"getConceptsFollowedByGroup", "getConceptsFollowedByUser",
   "getEmailDigestPreference"}

\* A not-found reply to a request of the paged fetch rejects the fetch with
\* that error.
FetchPropagatesNotFound ==
  [][(fpc = "waiting" /\ fwire.kind = "NotFoundError" /\ fwire' # fwire) =>
       (fpc' = "failed" /\ fOut' = Raised(ErrorReply("NotFoundError")))]_vars

\* In the workflow a call the workflow has a catch on and that ended in a
\* not-found is followed by the next step or by the end of the run; on any
\* other call a not-found is the last call of the run, which fails with it.
SyncAbsorbsOnlyAtItsCatches ==
  \A i \in DOMAIN calls :
    calls[i].end = "NotFoundError" =>
      IF calls[i].op \in AbsorbingOps
        THEN i < Len(calls) \/ spc = "done"
        ELSE /\ spc = "failed"
             /\ i = Len(calls)
             /\ sOut.status = "raised"
             /\ sOut.error.kind = "NotFoundError"

\* C16 as stated: outside the workflow's three catches a not-found reaches
\* the caller as a raised NotFoundError, in the paged fetch and in the batch
\* engine whatever the number of chunks.
C16_NotFoundPropagates ==
  /\ FetchPropagatesNotFound
  /\ [](SyncAbsorbsOnlyAtItsCatches)
  /\ []((BatchDone /\ SomeChunkNotFound) =>
          (bpc = "raised" /\ bOut.error.kind = "NotFoundError"))

\* C16, amended: outside the workflow's three catches a not-found reaches
\* the caller as a raised NotFoundError in the paged fetch and in a batch of
\* one chunk; in a batch of two or more chunks it is returned as an error
\* value at its chunk's place when some chunk succeeded, and a generic
\* ClientError is raised in its place when every chunk failed.
C16_NotFoundPropagatesSingleChunk ==
  /\ FetchPropagatesNotFound
  /\ [](SyncAbsorbsOnlyAtItsCatches)
  /\ []((BatchDone /\ SomeChunkNotFound) =>
          IF Len(idChunks) = 1
            THEN /\ bpc = "raised"
                 /\ bOut.error = ErrOutcome("NotFoundError", 1)
            ELSE IF AllChunksFailed
              THEN /\ bpc = "raised"
                   /\ bOut.error = [kind |-> "ClientError"]
              ELSE /\ bpc = "returned"
                   /\ \A p \in DOMAIN completed :
                        completed[p].kind = "NotFoundError" =>
                          bOut.value[completed[p].req] = completed[p])

\* A batch of two chunks, both ended in a not-found, has raised.
C16_Witness ==
  /\ spc = "idle"
  /\ bpc = "raised"
  /\ Len(idChunks) = 2
  /\ \A p \in DOMAIN completed : completed[p].kind = "NotFoundError"

\* --------------------------------------------- malformed responses: claims

\* The remote answered a request of the fetch the workflow last made with a
\* body whose `items` is not a list.
MalformedServed ==
  \E i \in DOMAIN served : served[i].kind = "page" /\ ~served[i].list

\* C17: a run whose fetch of concepts was answered with a body whose `items`
\* is not a list fails with a generic Error; it does not go on as if the
\* list were empty.
C17_MalformedRaises ==
  (spc \notin {"idle", "groupConcepts", "userConcepts"} /\ MalformedServed) =>
    /\ spc = "failed"
    /\ sOut.status = "raised"
    /\ sOut.error.kind = "Error"

\* ---------------------------------------------- mutation operations: claims

\* The value the flag k of the last call's requests has when the caller's
\* value is sent if there is one, and the configured default otherwise.
FlagExpected(k) ==
  IF opCall.options[k] # "omitted" THEN opCall.options[k]
  ELSE IF k = "noEvent" THEN config.MYFT_NO_EVENT
       ELSE config.MYFT_WAIT_FOR_PURGE_ADD

\* C18: the requests of every mutation operation carry, for noEvent and for
\* waitForPurge, the value the caller gave in the options, and the
\* configured default for a value the caller left out.
C18_OptionsSent ==
  opCall.op # "none" =>
    \A k \in {"noEvent", "waitForPurge"} : opCall.params[k] = FlagExpected(k)

\* ------------------------------------------- paged fetch: the next page

\* The body r, received as the answer to the request of page p, calls for
\* another page: its items is a list and its total is there, holds a number
\* and is greater than p * 500.
CallsForNextPage(p, r) ==
  /\ r.list
  /\ r.t \in {"num", "digits"}
  /\ r.n > p * PageLimit

\* C19: when thenFn runs on the answer to the request of page p, it requests
\* page p + 1 exactly when that answer's items is a list and its total is
\* there, numeric and greater than p * 500, and otherwise the fetch returns
\* the accumulator; nothing but that answer and p enters the decision.  (At
\* the ceiling of params.page the request is sent with the page unchanged.)
C19_NextPageDecision ==
  [][(fpc = "waiting" /\ fwire.kind = "page" /\ fwire' # fwire) =>
       IF CallsForNextPage(page, fwire)
         THEN /\ fpc' = "waiting"
              /\ fOut' = NoOut
              /\ page < PageCeiling => (page' = page + 1 /\ asked' = asked + 1)
         ELSE /\ fpc' = "done"
              /\ fOut' = Returned(allItems')
              /\ allItems' =
                   IF fwire.list THEN allItems \o fwire.elems ELSE allItems
              /\ asked' = asked
              /\ page' = page]_vars

\* A fetch ended by a second page without a list of items whose total calls
\* for a third page, after a first page with another total.
C19_Witness ==
  /\ fpc = "done"
  /\ exact
  /\ Len(served) = 2
  /\ ~served[2].list
  /\ served[2].t = "num"
  /\ served[2].n > 2 * PageLimit
  /\ served[1].n # served[2].n

\* ------------------------------------------------ shared state: claims

\* The options object the transport holds for the request of chunk i while
\* it is in flight: Object.assign({}, fetchOptions, {method}) copies the
\* reference to the headers, so its headers are the module's one object.
Descriptor(i) ==
  [method |-> "POST", body |-> idChunks[i], headers |-> headers]

\* The descriptor the request's own inputs determine.
OwnDescriptor(i) ==
  [method |-> "POST", body |-> idChunks[i],
   headers |-> HeadersAfter(NoContentLength, config, "POST",
                            BodyBytes(idChunks[i]))]

\* C20: while the requests of a batch are in flight, the descriptor of each,
\* its headers included, is the one its own inputs determine: building
\* another request changes nothing a request in flight reads.
C20_DescriptorsIndependent ==
  bpc = "mapping" => \A i \in InFlight : Descriptor(i) = OwnDescriptor(i)

\* ------------------------------------------- workflow: order of the calls

\* The operations of the calls the run has made so far, in order.
CallOps == [i \in DOMAIN calls |-> calls[i].op]

IsPrefix(a, b) == Len(a) <= Len(b) /\ \A i \in DOMAIN a : a[i] = b[i]

\* The calls of a run that finds a preference.
WorkflowOpsWithoutCreate ==
  <<"getConceptsFollowedByGroup", "getConceptsFollowedByUser",
    "addConceptsFollowedByUser", "getEmailDigestPreference", "kinesis.write">>

\* The call has ended and the workflow goes on after it.
EndedWell(c) ==
  \/ c.end = "ok"
  \/ c.end = "NotFoundError" /\ c.op \in AbsorbingOps

\* C21: in every run the calls are made in the order fetch of the group's
\* concepts, fetch of the user's, add-follows, preference read, (preference
\* creation), kinesis write; a call is made only when the one before it has
\* ended well (successfully, or in a not-found the workflow absorbs) and
\* nothing of it is still running; and at most one call is outstanding, the
\* last one.
C21_StrictlySequential ==
  /\ [](\/ IsPrefix(CallOps, WorkflowOps)
        \/ IsPrefix(CallOps, WorkflowOpsWithoutCreate))
  /\ [](\A i \in DOMAIN calls :
          /\ i < Len(calls) => EndedWell(calls[i])
          /\ calls[i].end = "pending" => i = Len(calls))
  /\ [](~(fpc = "waiting" /\ bpc = "mapping"))
  /\ [][Len(calls') > Len(calls) =>
          /\ Len(calls') = Len(calls) + 1
          /\ fpc # "waiting"
          /\ bpc # "mapping"]_vars

\* A completed run that made all six calls.
C21_Witness ==
  /\ SyncCompleted
  /\ CallOps = WorkflowOps

\* ------------------------------------------- batch engine: dispatch order

\* C22: chunks are dispatched in chunk order: whenever the request of chunk
\* j has been sent, the request of every chunk before j has been sent too.
C22_DispatchFifo ==
  \A j \in Range(dispatched) :
    \A i \in 1..j : i \in Range(dispatched)

\* ------------------------------------------------ batch engine: the chunks

\* The ids of the chunks, one after the other in chunk order.
RECURSIVE ChunkIdsInOrder(_)
ChunkIdsInOrder(chunks) ==
  IF chunks = <<>> THEN <<>>
  ELSE Head(chunks).ids \o ChunkIdsInOrder(Tail(chunks))

\* How often chunk i was dispatched.
TimesDispatched(i) == Cardinality({p \in DOMAIN dispatched : dispatched[p] = i})

\* C23: the chunks built from a list of ids each hold between 1 and
\* BATCH_USER_COUNT ids and, one after the other in chunk order, are the
\* list itself; an id that is not a list is the one chunk; no chunk is sent
\* twice, and when the engine has ended every chunk was sent once, so that
\* every id of the input went out in the ids of exactly one request.
C23_ChunksPartitionIds ==
  bpc # "idle" =>
    /\ IF nodeId.list
         THEN /\ \A i \in DOMAIN idChunks :
                   /\ idChunks[i].list
                   /\ Len(idChunks[i].ids) >= 1
                   /\ Len(idChunks[i].ids) <= BATCH_USER_COUNT
              /\ ChunkIdsInOrder(idChunks) = nodeId.ids
         ELSE idChunks = <<nodeId>>
    /\ \A i \in DOMAIN idChunks : TimesDispatched(i) <= 1
    /\ BatchDone => \A i \in DOMAIN idChunks : TimesDispatched(i) = 1

\* A batch on a list of more ids than one chunk holds has ended, its last
\* chunk not a full one.
C23_Witness ==
  /\ BatchDone
  /\ nodeId.list
  /\ Len(nodeId.ids) > BATCH_USER_COUNT
  /\ Len(idChunks) = CeilDiv(Len(nodeId.ids), BATCH_USER_COUNT)
  /\ Len(idChunks[Len(idChunks)].ids) < BATCH_USER_COUNT

\* ------------------------------------------------ workflow: the new concepts

\* The fetch of the user's concepts has ended and the run went on with its
\* result.
UserFetchHandled == Len(calls) >= 2 /\ EndedWell(calls[2])

\* The uuids of the concepts the run holds as followed by the user.
FollowedIds == {UserFetched[j].uuid : j \in DOMAIN UserFetched}

\* C24: once the user's concepts are fetched, newConceptsToFollow holds no
\* concept whose uuid is one of the user's, holds every concept of the group
\* whose uuid is none of the user's, and is the group's list with the other
\* concepts left out, in the group's order.
C24_NewConceptsFilter ==
  UserFetchHandled =>
    /\ \A i \in DOMAIN newConceptsToFollow :
         newConceptsToFollow[i].uuid \notin FollowedIds
    /\ \A i \in DOMAIN groupConcepts :
         groupConcepts[i].uuid \notin FollowedIds =>
           groupConcepts[i] \in Range(newConceptsToFollow)
    /\ newConceptsToFollow =
         SelectSeq(groupConcepts, LAMBDA c : c \in Range(newConceptsToFollow))

\* A group of at least three concepts, of which some are new and one is
\* followed by the user under other relationship properties.
C24_Witness ==
  /\ UserFetchHandled
  /\ Len(groupConcepts) >= 3
  /\ newConceptsToFollow # <<>>
  /\ Len(newConceptsToFollow) < Len(groupConcepts)
  /\ \E i \in DOMAIN groupConcepts :
       /\ groupConcepts[i].uuid \in FollowedIds
       /\ groupConcepts[i] \notin Range(UserFetched)

\* --------------------------------------------------- request builder: claims

\* The segments of a URL: what follows each "/" after the base.
Segments(url) == [i \in 1..((Len(url) - 1) \div 2) |-> url[2 * i + 1]]

\* The components a call gave, in the order of the parameters.
Given(components) ==
  LET present == SelectSeq(components, LAMBDA x : x # Undefined)
  IN  [i \in DOMAIN present |-> present[i].str]

\* C25: the path of a built request is made of the components the call
\* gave, in the order node kind, node id, relationship kind, related node
\* kind, related id, one segment each after a "/"; a component left out
\* leaves no segment, neither an empty one nor "undefined".
C25_PathSegments ==
  request # NoRequest =>
    /\ request.theUrl[1] = "MYFT_API_URL"
    /\ \A i \in 1..Len(request.theUrl) : (i % 2 = 0) <=> request.theUrl[i] = "/"
    /\ Segments(request.theUrl) = Given(request.components)
    /\ \A i \in DOMAIN Segments(request.theUrl) :
         Segments(request.theUrl)[i] \notin {"", "undefined"}

\* A request built without node id and without related node kind, with a
\* relationship kind and a related id.
C25_Witness ==
  /\ request # NoRequest
  /\ request.components[2] = Undefined
  /\ request.components[3] # Undefined
  /\ request.components[4] = Undefined
  /\ request.components[5] # Undefined
  /\ Len(Segments(request.theUrl)) = 3

\* -------------------------------------------- batch engine: when it raises

\* C26: the batch engine raises only when a chunk request was sent and
\* failed; on an empty list of ids it sends no request and does not raise.
C26_RaisesOnlyAfterFailure ==
  /\ bpc = "raised" =>
       \E p \in DOMAIN completed :
         /\ completed[p].req \in Range(dispatched)
         /\ IsError(completed[p])
  /\ (BatchDone /\ nodeId = [list |-> TRUE, ids |-> <<>>]) =>
       /\ dispatched = <<>>
       /\ bpc = "returned"

\* ---------------------------------- workflow: what the user's pages returned

\* The uuids of the concepts the pages of the user's fetch returned.
ServedIds ==
  UNION {{served[p].elems[j].uuid : j \in DOMAIN served[p].elems} :
           p \in {q \in DOMAIN served : served[q].list}}

\* C27: once the user's fetch has ended, no concept that a page of it
\* returned is among newConceptsToFollow, nor among the concepts of the
\* add-follow call or of the notification, also when a later page of the
\* fetch ended in a not-found.
C27_ServedNeverNew ==
  UserFetchHandled =>
    /\ \A i \in DOMAIN newConceptsToFollow :
         newConceptsToFollow[i].uuid \notin ServedIds
    /\ \A k \in DOMAIN calls :
         calls[k].op \in {"addConceptsFollowedByUser", "kinesis.write"} =>
           \A i \in DOMAIN calls[k].concepts :
             calls[k].concepts[i].uuid \notin ServedIds

\* ------------------------------------------------- workflow: a second run

PreviousCompleted ==
  /\ previous.status = "returned"
  /\ previous.value.status = "synchronisationCompleted"

\* C28: the run after a run that ended in synchronisationCompleted, for the
\* same group and user and against a remote that recorded the follows and
\* answers from its record, makes no call but its two fetches, sends no
\* request of the batch engine, emits nothing, and ends with
\* synchronisationIgnored / noNewConceptsToFollow.
C28_SecondRunIgnored ==
  /\ [](PreviousCompleted =>
          /\ \A i \in DOMAIN calls : calls[i].op \notin MutationOps
          /\ spc # "failed"
          /\ spc = "done" => sOut = IgnoredNoNewConcepts)
  /\ [][PreviousCompleted => UNCHANGED <<batchVars, remote>>]_vars

\* The second run has ended, the first having followed two concepts for a
\* user who followed none.
C28_Witness ==
  /\ PreviousCompleted
  /\ Len(previous.value.newConceptsToFollow) = 2
  /\ spc = "done"
  /\ sOut = IgnoredNoNewConcepts
  /\ Len(calls) = 2

====
